---------------------------- MODULE Spec2Model ----------------------------
(***************************************************************************)
(* A state-machine model of the multiplayer world client of src/game.js    *)
(* (class VikingSettlementTycoon): the connection lifecycle with its       *)
(* reconnect backoff, the session state reconciled from server events,     *)
(* the chunk cache with distance-based streaming, the per-chunk fog masks  *)
(* and the throttled camera updates.                                       *)
(*                                                                         *)
(* Every handler of the class is one atomic action (the browser runs       *)
(* callbacks to completion on one thread).  The variables emitted,         *)
(* notifications, threw and lastEvent describe the handler that ran last:  *)
(* what it sent through socket.emit, what it showed, whether it ended in   *)
(* an uncaught exception, and which handler it was.                        *)
(***************************************************************************)
EXTENDS Integers, Sequences, FiniteSets, Bags, TLC

VARIABLES
    \* ---- connection (constructor lines 7-13)
    socket,             \* state of the socket this.socket refers to
    staleSockets,       \* sockets of earlier connectToServer calls, by state
    isConnected,        \* this.isConnected
    reconnectAttempts,  \* this.reconnectAttempts
    timers,             \* bag of pending setTimeout(connectToServer) delays
    scheduledDelays,    \* history: delays attemptReconnect scheduled since the last connect
    \* ---- session (constructor lines 16-26, 37-38)
    worldId, otherPlayers, camera, resources, population, buildings, scouts,
    selectedBuilding, placementMode, exploredAreas,
    \* ---- chunk cache and fog (constructor lines 29-39)
    loadedChunks,       \* this.loadedChunks: chunk key -> chunk
    fogOfWar,           \* this.fogOfWar: chunk key -> fog mask
    revealAnimations,   \* this.revealAnimations
    pendingImages,      \* Images of restoreFogOfWarFromServer whose onload has not run
    \* ---- input and timing (constructor lines 42-48, throttle closure)
    isDragging, dragStart, cameraStart,
    inThrottle,         \* the closure variable of throttle()
    throttleTimer,      \* ms until the throttle's setTimeout callback runs, -1 if none
    sinceThrottled,     \* history: ms since the throttled function last ran, -1 if never
    windowMoves,        \* history: drag movements since the throttled function last ran
    frameDue,           \* a requestAnimationFrame callback is due
    \* ---- the handler that ran last
    emitted, notifications, threw, lastEvent

connVars    == <<socket, staleSockets, isConnected, reconnectAttempts, timers, scheduledDelays>>
sessionVars == <<worldId, otherPlayers, resources, population, buildings, scouts, exploredAreas>>
placeVars   == <<selectedBuilding, placementMode>>
cacheVars   == <<loadedChunks, fogOfWar, revealAnimations, pendingImages>>
dragVars    == <<isDragging, dragStart, cameraStart>>
timeVars    == <<inThrottle, throttleTimer, sinceThrottled, windowMoves, frameDue>>
obsVars     == <<emitted, notifications, threw, lastEvent>>
vars == <<connVars, sessionVars, placeVars, camera, cacheVars, dragVars, timeVars, obsVars>>

-----------------------------------------------------------------------------
(* Bounds of the model *)

\* sockets created by connectToServer that are still alive
MaxSockets == 6
\* pending connectToServer timers
MaxTimers == 5

(* Program constants *)

maxReconnectAttempts == 5
chunkSize == 512
chunkLoadRadius == 3

Undefined == "undefined"
Null == "null"

Min(a, b) == IF a < b THEN a ELSE b
Max(a, b) == IF a > b THEN a ELSE b
Abs(a) == IF a < 0 THEN -a ELSE a

RECURSIVE Pow2(_)
Pow2(n) == IF n = 0 THEN 1 ELSE 2 * Pow2(n - 1)

\* what the last handler did, always set together
Did(ev, em, no, th) ==
    /\ lastEvent' = ev
    /\ emitted' = em
    /\ notifications' = no
    /\ threw' = th

Notice(message, type) == [message |-> message, type |-> type]

-----------------------------------------------------------------------------
(* Connection lifecycle *)

\* sockets that can still deliver events: this.socket and the stale ones
AliveSockets ==
    (IF socket \in {"pending", "connected"} THEN 1 ELSE 0)
        + staleSockets.pending + staleSockets.connected

\* this.socket.id: socket.io gives a socket an id while it is connected
LocalId == "local"
SocketId == IF socket = "connected" THEN LocalId ELSE Undefined

\* connectToServer: this.socket = io() makes a new socket that starts its
\* handshake; the socket this.socket referred to keeps its handlers
StaleAfterConnectToServer ==
    CASE socket = "pending"   -> [staleSockets EXCEPT !.pending = @ + 1]
      [] socket = "connected" -> [staleSockets EXCEPT !.connected = @ + 1]
      [] OTHER                -> staleSockets

\* (mutant of ReconnectDelay: the cap of 10000 ms forgotten)
ReconnectDelayUncapped(n) == 1000 * Pow2(n)

\* the delay attemptReconnect computes after incrementing the counter to n
ReconnectDelay(n) == Min(1000 * Pow2(n), 10000)

\* (mutant of JoinWorld: the test of isConnected inverted)
JoinWorldWhenOffline(conn) ==
    IF ~conn THEN << [event |-> "join_world", worldId |-> Null] >> ELSE << >>

\* joinWorld(worldId = null): the events it emits, isConnected being conn
JoinWorld(conn) ==
    IF conn THEN << [event |-> "join_world", worldId |-> Null] >> ELSE << >>

\* attemptReconnect as a function of the counter and the timers:
\* the new counter, the new timers, the delays scheduled, the notices shown
AttemptReconnect(n, tm) ==
    IF n < maxReconnectAttempts
    THEN [attempts |-> n + 1,
          timers |-> tm (+) SetToBag({ReconnectDelay(n + 1)}),
          scheduled |-> << ReconnectDelay(n + 1) >>,
          notices |-> << >>]
    ELSE [attempts |-> n,
          timers |-> tm,
          scheduled |-> << >>,
          notices |-> << Notice("Unable to reconnect. Please refresh the page.", "error") >>]

\* socket.on('connect') of this.socket (which = "current") or of a stale socket
OnConnect(which) ==
    /\ \/ /\ which = "current"
          /\ socket = "pending"
          /\ socket' = "connected"
          /\ UNCHANGED staleSockets
       \/ /\ which = "stale"
          /\ staleSockets.pending > 0
          /\ staleSockets' = [staleSockets EXCEPT !.pending = @ - 1, !.connected = @ + 1]
          /\ UNCHANGED socket
    /\ isConnected' = TRUE
    /\ reconnectAttempts' = 0
    /\ scheduledDelays' = << >>
    /\ Did("connect", JoinWorld(TRUE),
           << Notice("Connected to multiplayer server!", "success") >>, FALSE)
    /\ UNCHANGED <<timers, sessionVars, placeVars, camera, cacheVars, dragVars, timeVars>>

\* socket.on('disconnect') after a transport loss or a server-side close.
\* after: "pending" when the socket's manager will retry the handshake by
\* itself (socket.io's default), "closed" when it will not.
OnDisconnect(which, after) ==
    LET r == AttemptReconnect(reconnectAttempts, timers) IN
    /\ BagCardinality(r.timers) <= MaxTimers
    /\ \/ /\ which = "current"
          /\ socket = "connected"
          /\ socket' = after
          /\ UNCHANGED staleSockets
       \/ /\ which = "stale"
          /\ staleSockets.connected > 0
          /\ staleSockets' =
                IF after = "pending"
                THEN [staleSockets EXCEPT !.connected = @ - 1, !.pending = @ + 1]
                ELSE [staleSockets EXCEPT !.connected = @ - 1]
          /\ UNCHANGED socket
    /\ isConnected' = FALSE
    /\ reconnectAttempts' = r.attempts
    /\ timers' = r.timers
    /\ scheduledDelays' = scheduledDelays \o r.scheduled
    /\ Did("disconnect", << >>,
           << Notice("Disconnected from server", "warning") >> \o r.notices, FALSE)
    /\ UNCHANGED <<sessionVars, placeVars, camera, cacheVars, dragVars, timeVars>>

\* a handshake of this.socket or of a stale socket fails (connect_error):
\* connectToServer registers no handler for it, so no field changes and
\* attemptReconnect does not run; the socket's manager retries the handshake
\* by itself (socket.io's default), the socket stays pending
OnConnectError(which) ==
    /\ \/ which = "current" /\ socket = "pending"
       \/ which = "stale" /\ staleSockets.pending > 0
    /\ Did("connect_error", << >>, << >>, FALSE)
    /\ UNCHANGED <<connVars, sessionVars, placeVars, camera, cacheVars, dragVars, timeVars>>

\* a setTimeout callback of attemptReconnect or createNewWorld runs
TimerFires(delay) ==
    /\ BagIn(delay, timers)
    /\ AliveSockets < MaxSockets
    /\ timers' = timers (-) SetToBag({delay})
    /\ socket' = "pending"
    /\ staleSockets' = StaleAfterConnectToServer
    /\ Did("timer", << >>, << >>, FALSE)
    /\ UNCHANGED <<isConnected, reconnectAttempts, scheduledDelays,
                   sessionVars, placeVars, camera, cacheVars, dragVars, timeVars>>

\* createNewWorld: this.socket.disconnect() runs the disconnect handler at
\* once when the socket is connected, and only closes it when it is not
CreateNewWorld ==
    LET r == IF socket = "connected"
             THEN AttemptReconnect(reconnectAttempts, timers)
             ELSE [attempts |-> reconnectAttempts, timers |-> timers,
                   scheduled |-> << >>, notices |-> << >>]
    IN
    IF socket # Null /\ isConnected
    THEN /\ BagCardinality(r.timers) < MaxTimers
         /\ socket' = "closed"
         /\ isConnected' = (IF socket = "connected" THEN FALSE ELSE isConnected)
         /\ reconnectAttempts' = r.attempts
         /\ timers' = r.timers (+) SetToBag({1000})
         /\ scheduledDelays' = scheduledDelays \o r.scheduled
         /\ Did("createNewWorld", << >>,
                (IF socket = "connected"
                 THEN << Notice("Disconnected from server", "warning") >>
                 ELSE << >>) \o r.notices, FALSE)
         /\ UNCHANGED <<staleSockets, sessionVars, placeVars, camera, cacheVars,
                        dragVars, timeVars>>
    ELSE /\ Did("createNewWorld", << >>, << >>, FALSE)
         /\ UNCHANGED <<connVars, sessionVars, placeVars, camera, cacheVars,
                        dragVars, timeVars>>

-----------------------------------------------------------------------------
(* Inputs: the payloads the server sends and the values they carry *)

\* an optional field of a payload: << >> when the field is absent
Absent == << >>
Some(v) == << v >>
IsPresent(o) == Len(o) > 0
Get(o) == o[1]

PeerIds == {"peer1", "peer2"}
PlayerIds == {LocalId} \cup PeerIds

InitialResources == [food |-> 100, wood |-> 50, iron |-> 25, gold |-> 10]
ResourceInputs == { [food |-> 60, wood |-> 20, iron |-> 25, gold |-> 10],
                    [food |-> 0,  wood |-> 0,  iron |-> 0,  gold |-> 0] }
PopulationInputs == {0, 8}
Scout(id, exploring) == [id |-> id, x |-> 0, y |-> 0, exploring |-> exploring]
ScoutsInputs == { << >>, << Scout(1, FALSE) >> }
Building(type, owner) ==
    [type |-> type, name |-> type, x |-> 64, y |-> 64, playerId |-> owner]
BuildingInputs == { Building("farm", LocalId), Building("temple", "peer1") }
BuildingTypes == {"farm", "temple"}
Reasons == {"Not enough resources", ""}

\* buildings kept in this.buildings
MaxBuildings == 2

\* an inbound event is delivered by a connected socket whose handlers are attached
CanReceive == socket = "connected" \/ staleSockets.connected > 0

-----------------------------------------------------------------------------
(* Session state reconciled from server events *)

\* this.cancelPlacement(): the class defines no method of that name (it is
\* only called, at lines 221, 233 and 460), so the call raises a TypeError
\* and assigns nothing.  The result: the placement fields and whether the
\* caller is aborted by the exception.
CancelPlacement(sb, pm) ==
    [selectedBuilding |-> sb, placementMode |-> pm, threw |-> TRUE]

\* the JavaScript truthiness tests of handlePlayerUpdated, on optional fields
TruthyObject(o) == IsPresent(o)
TruthyNumber(o) == IsPresent(o) /\ Get(o) # 0

\* handlePlayerUpdated: the new (resources, population, scouts)
PlayerUpdated(data) ==
    IF data.playerId = SocketId
    THEN [resources  |-> IF TruthyObject(data.resources) THEN Get(data.resources) ELSE resources,
          population |-> IF TruthyNumber(data.population) THEN Get(data.population) ELSE population,
          scouts     |-> IF TruthyObject(data.scouts) THEN Get(data.scouts) ELSE scouts]
    ELSE [resources |-> resources, population |-> population, scouts |-> scouts]

\* (mutant of BuildingPlaced: a peer's building is put first, not last)
BuildingPlacedPrepends(data) ==
    [resources |-> IF data.playerId = SocketId THEN data.playerResources ELSE resources,
     buildings |-> IF data.playerId = SocketId THEN buildings
                   ELSE << data.building >> \o buildings,
     cancels |-> data.playerId = SocketId]

\* (mutant of BuildingPlaced: the player's own building is pushed as well)
BuildingPlacedPushesOwn(data) ==
    [resources |-> IF data.playerId = SocketId THEN data.playerResources ELSE resources,
     buildings |-> Append(buildings, data.building),
     cancels |-> data.playerId = SocketId]

\* handleBuildingPlaced: the new resources and buildings, and whether
\* cancelPlacement is called
BuildingPlaced(data) ==
    IF data.playerId = SocketId
    THEN [resources |-> data.playerResources, buildings |-> buildings, cancels |-> TRUE]
    ELSE [resources |-> resources, buildings |-> Append(buildings, data.building),
          cancels |-> FALSE]

\* handleBuildingPlaced
OnBuildingPlaced(data) ==
    LET b == BuildingPlaced(data)
        c == IF b.cancels THEN CancelPlacement(selectedBuilding, placementMode)
             ELSE [selectedBuilding |-> selectedBuilding, placementMode |-> placementMode,
                   threw |-> FALSE]
    IN
    /\ CanReceive
    /\ Len(b.buildings) <= MaxBuildings
    /\ resources' = b.resources
    /\ buildings' = b.buildings
    /\ selectedBuilding' = c.selectedBuilding
    /\ placementMode' = c.placementMode
    /\ Did("building_placed", << >>,
           IF c.threw THEN << >> ELSE << Notice(data.building.name, "success") >>,
           c.threw)
    /\ UNCHANGED <<connVars, worldId, otherPlayers, population, scouts, exploredAreas,
                   camera, cacheVars, dragVars, timeVars>>

\* handleBuildingRejected
OnBuildingRejected(data) ==
    LET c == CancelPlacement(selectedBuilding, placementMode) IN
    /\ CanReceive
    /\ selectedBuilding' = c.selectedBuilding
    /\ placementMode' = c.placementMode
    /\ Did("building_rejected", << >>, << Notice(data.reason, "error") >>, c.threw)
    /\ UNCHANGED <<connVars, sessionVars, camera, cacheVars, dragVars, timeVars>>

\* Object.assign(myScout, scout) on the scout of this.scouts with the same id
AssignScout(ss, scout) ==
    LET hits == {i \in 1..Len(ss) : ss[i].id = scout.id} IN
    IF hits = {} THEN ss
    ELSE LET first == CHOOSE i \in hits : \A j \in hits : i <= j
         IN [ss EXCEPT ![first] = scout]

\* handleScoutSent
OnScoutSent(data) ==
    /\ CanReceive
    /\ scouts' = IF data.playerId = SocketId THEN AssignScout(scouts, data.scout) ELSE scouts
    /\ Did("scout_sent", << >>, << Notice("Scout dispatched!", "success") >>, FALSE)
    /\ UNCHANGED <<connVars, worldId, otherPlayers, resources, population, buildings,
                   exploredAreas, placeVars, camera, cacheVars, dragVars, timeVars>>

\* handleScoutRejected
OnScoutRejected(data) ==
    /\ CanReceive
    /\ Did("scout_rejected", << >>, << Notice(data.reason, "warning") >>, FALSE)
    /\ UNCHANGED <<connVars, sessionVars, placeVars, camera, cacheVars, dragVars, timeVars>>

\* handlePlayerUpdated
OnPlayerUpdated(data) ==
    LET u == PlayerUpdated(data) IN
    /\ CanReceive
    /\ resources' = u.resources
    /\ population' = u.population
    /\ scouts' = u.scouts
    /\ Did("player_updated", << >>, << >>, FALSE)
    /\ UNCHANGED <<connVars, worldId, otherPlayers, buildings, exploredAreas, placeVars,
                   camera, cacheVars, dragVars, timeVars>>

\* (mutant of RosterWithout: the entry is not deleted)
RosterWithoutKeeps(roster, id) == roster

\* the peer roster: a function from the connection ids it holds to the peers
RosterWith(roster, id, peer) ==
    [k \in DOMAIN roster \cup {id} |-> IF k = id THEN peer ELSE roster[k]]
RosterWithout(roster, id) ==
    [k \in DOMAIN roster \ {id} |-> roster[k]]

\* handlePlayerJoined
OnPlayerJoined(data) ==
    /\ CanReceive
    /\ otherPlayers' = RosterWith(otherPlayers, data.socketId,
                                  [socket_id |-> data.socketId,
                                   player_name |-> data.playerName,
                                   camera |-> data.camera])
    /\ Did("player_joined", << >>, << Notice(data.playerName, "info") >>, FALSE)
    /\ UNCHANGED <<connVars, worldId, resources, population, buildings, scouts,
                   exploredAreas, placeVars, camera, cacheVars, dragVars, timeVars>>

\* handlePlayerLeft
OnPlayerLeft(data) ==
    /\ CanReceive
    /\ IF data.playerId \in DOMAIN otherPlayers
       THEN /\ otherPlayers' = RosterWithout(otherPlayers, data.playerId)
            /\ Did("player_left", << >>,
                   << Notice(otherPlayers[data.playerId].player_name, "info") >>, FALSE)
       ELSE /\ UNCHANGED otherPlayers
            /\ Did("player_left", << >>, << >>, FALSE)
    /\ UNCHANGED <<connVars, worldId, resources, population, buildings, scouts,
                   exploredAreas, placeVars, camera, cacheVars, dragVars, timeVars>>

\* handlePlayerCameraUpdated
OnPlayerCameraUpdated(data) ==
    /\ CanReceive
    /\ otherPlayers' =
          IF data.playerId \in DOMAIN otherPlayers
          THEN [otherPlayers EXCEPT ![data.playerId].camera = data.camera]
          ELSE otherPlayers
    /\ Did("player_camera_updated", << >>, << >>, FALSE)
    /\ UNCHANGED <<connVars, worldId, resources, population, buildings, scouts,
                   exploredAreas, placeVars, camera, cacheVars, dragVars, timeVars>>

-----------------------------------------------------------------------------
(* Coordinate mapper *)

\* canvas.width and canvas.height as setupCanvas leaves them (the window's size)
canvasWidth == 800
canvasHeight == 600

\* camera.scale is kept in percent (scale = scalePct / 100), so that the
\* divisions of the code are computed exactly
Camera(x, y, scalePct) == [x |-> x, y |-> y, scalePct |-> scalePct]

\* Math.floor(num / den) for den > 0
FloorDiv(num, den) == num \div den

\* The numbers of the model are integers and two values more: NaN, which a
\* payload field gives in arithmetic when it is missing (undefined), and
\* Infinity, which JSON such as 1e999 parses to.  isFinite is false of both,
\* every comparison with NaN is false, and Infinity is greater than any integer.
NaN == -999999999
Infinity == 999999999
IsFinite(v) == v # NaN /\ v # Infinity
\* v > 0
Positive(v) == v # NaN /\ v > 0

\* getChunkCoords(worldX, worldY): Math.floor(v / chunkSize) is v for a v that
\* is not finite
getChunkCoords(worldX, worldY) ==
    [x |-> IF IsFinite(worldX) THEN FloorDiv(worldX, chunkSize) ELSE worldX,
     y |-> IF IsFinite(worldY) THEN FloorDiv(worldY, chunkSize) ELSE worldY]

\* a number in a template string
NumberToString(n) ==
    IF IsFinite(n) THEN ToString(n) ELSE IF n = NaN THEN "NaN" ELSE "Infinity"

\* getChunkKey(chunkX, chunkY): the string `${chunkX},${chunkY}`
getChunkKey(chunkX, chunkY) == NumberToString(chunkX) \o "," \o NumberToString(chunkY)

\* (mutant of CameraChunk: the chunk of camera.x, camera.y, the view's corner)
CameraChunkOfCorner(cam) == getChunkCoords(cam.x, cam.y)

\* cameraChunk of loadNearbyChunks:
\* getChunkCoords(camera.x + canvas.width / (2 * camera.scale), ... height ...)
\* floor((x + w / (2 s / 100)) / c) = floor((2 s x + 100 w) / (2 s c))
CameraChunk(cam) ==
    [x |-> FloorDiv(2 * cam.scalePct * cam.x + 100 * canvasWidth,
                    2 * cam.scalePct * chunkSize),
     y |-> FloorDiv(2 * cam.scalePct * cam.y + 100 * canvasHeight,
                    2 * cam.scalePct * chunkSize)]

-----------------------------------------------------------------------------
(* Chunk cache *)

\* a chunk payload of the server for chunk (x, y): its terrain is opaque here
Chunk(x, y) == [x |-> x, y |-> y, worldX |-> x * chunkSize, worldY |-> y * chunkSize]
ChunkEntry(x, y) == [chunkKey |-> getChunkKey(x, y), chunk |-> Chunk(x, y)]

\* the coordinates loadNearbyChunks visits, in the order of its two loops
SquareCoords(center) ==
    LET side == 2 * chunkLoadRadius + 1 IN
    [i \in 1..(side * side) |->
        [x |-> center.x - chunkLoadRadius + ((i - 1) \div side),
         y |-> center.y - chunkLoadRadius + ((i - 1) % side)]]

\* (mutant of NeededChunks: the residency test forgotten)
NeededChunksAll(lc, center) == SquareCoords(center)

\* neededChunks of loadNearbyChunks
NeededChunks(lc, center) ==
    LET Missing(c) == getChunkKey(c.x, c.y) \notin DOMAIN lc
    IN SelectSeq(SquareCoords(center), Missing)

\* (mutant of RequestChunks: the test of isConnected inverted)
RequestChunksWhenOffline(lc, center, conn) ==
    LET neededChunks == NeededChunks(lc, center) IN
    IF Len(neededChunks) > 0 /\ ~conn
    THEN << [event |-> "request_chunks", chunkCoords |-> neededChunks] >>
    ELSE << >>

\* the request loadNearbyChunks emits, isConnected being conn
RequestChunks(lc, center, conn) ==
    LET neededChunks == NeededChunks(lc, center) IN
    IF Len(neededChunks) > 0 /\ conn
    THEN << [event |-> "request_chunks", chunkCoords |-> neededChunks] >>
    ELSE << >>

ChebyshevDistance(chunk, centerChunkX, centerChunkY) ==
    Max(Abs(chunk.x - centerChunkX), Abs(chunk.y - centerChunkY))

\* (mutant of ChunksToUnload: the one-chunk margin forgotten)
ChunksToUnloadNoMargin(lc, centerChunkX, centerChunkY) ==
    {chunkKey \in DOMAIN lc :
        ChebyshevDistance(lc[chunkKey], centerChunkX, centerChunkY) > chunkLoadRadius}

\* chunksToUnload of unloadDistantChunks
ChunksToUnload(lc, centerChunkX, centerChunkY) ==
    LET unloadDistance == chunkLoadRadius + 1 IN
    {chunkKey \in DOMAIN lc :
        ChebyshevDistance(lc[chunkKey], centerChunkX, centerChunkY) > unloadDistance}

\* (mutant of UnloadDistantChunks: the masks of the evicted chunks are kept)
UnloadDistantChunksKeepsFog(lc, fog, centerChunkX, centerChunkY) ==
    LET gone == ChunksToUnload(lc, centerChunkX, centerChunkY) IN
    [loadedChunks |-> [k \in DOMAIN lc \ gone |-> lc[k]],
     fogOfWar |-> fog]

\* unloadDistantChunks: the new loadedChunks and fogOfWar
UnloadDistantChunks(lc, fog, centerChunkX, centerChunkY) ==
    LET gone == ChunksToUnload(lc, centerChunkX, centerChunkY) IN
    [loadedChunks |-> [k \in DOMAIN lc \ gone |-> lc[k]],
     fogOfWar |-> [k \in DOMAIN fog \ gone |-> fog[k]]]

\* loadNearbyChunks: the events emitted and the new loadedChunks and fogOfWar
LoadNearbyChunks(lc, fog, cam, conn) ==
    LET cameraChunk == CameraChunk(cam)
        u == UnloadDistantChunks(lc, fog, cameraChunk.x, cameraChunk.y)
    IN [emitted |-> RequestChunks(lc, cameraChunk, conn),
        loadedChunks |-> u.loadedChunks,
        fogOfWar |-> u.fogOfWar]

-----------------------------------------------------------------------------
(* Fog masks *)

\* The content of a mask canvas is kept as the drawing operations applied to
\* it since it was last cleared.  createdBy records which code path made the mask.
FilledContent == << [op |-> "fillRect", style |-> "rgba(0, 0, 0, 0.9)"] >>

\* initializeChunkFogOfWar: the mask it stores under getChunkKey(chunkX, chunkY)
InitializeChunkFogOfWar(fog, chunkX, chunkY, by) ==
    LET chunkKey == getChunkKey(chunkX, chunkY) IN
    [k \in DOMAIN fog \cup {chunkKey} |->
        IF k = chunkKey THEN [createdBy |-> by, content |-> FilledContent] ELSE fog[k]]

\* canvas.toDataURL() and the Image decoded from a data URL
ToDataURL(content) == [png |-> content]
ImageOf(dataURL) == dataURL.png

\* (mutant of ChunksData: a chunk beyond the eviction distance of the camera's
\* chunk is not stored)
ChunksDataNearCamera(chunks, lc, fog) ==
    LET C == CameraChunk(camera)
        idx == {i \in 1..Len(chunks) :
                   /\ Abs(chunks[i].chunk.x - C.x) <= chunkLoadRadius + 1
                   /\ Abs(chunks[i].chunk.y - C.y) <= chunkLoadRadius + 1}
        keys == {chunks[i].chunkKey : i \in idx}
        Last(k) == CHOOSE i \in idx :
                      /\ chunks[i].chunkKey = k
                      /\ \A j \in idx : chunks[j].chunkKey = k => j <= i
        maskless == {i \in idx : chunks[i].chunkKey \notin DOMAIN fog}
        made == {getChunkKey(chunks[i].chunk.x, chunks[i].chunk.y) : i \in maskless}
    IN [loadedChunks |-> [k \in keys |-> chunks[Last(k)].chunk] @@ lc,
        fogOfWar |->
            fog @@ [k \in made |-> [createdBy |-> "chunks_data", content |-> FilledContent]]]

\* (mutant of ChunksData: a filled mask is stored for every delivered chunk,
\* the test fogOfWar.has(chunkKey) forgotten)
ChunksDataResetsMasks(chunks, lc, fog) ==
    LET idx == 1..Len(chunks)
        keys == {chunks[i].chunkKey : i \in idx}
        Last(k) == CHOOSE i \in idx :
                      /\ chunks[i].chunkKey = k
                      /\ \A j \in idx : chunks[j].chunkKey = k => j <= i
        made == {getChunkKey(chunks[i].chunk.x, chunks[i].chunk.y) : i \in idx}
    IN [loadedChunks |-> [k \in keys |-> chunks[Last(k)].chunk] @@ lc,
        fogOfWar |->
            [k \in made |-> [createdBy |-> "chunks_data", content |-> FilledContent]] @@ fog]

\* handleChunksData: the new loadedChunks and fogOfWar.  chunks.forEach sets
\* loadedChunks at each chunkKey (the last entry of a key wins) and, for a
\* chunkKey without a mask, stores a filled mask under the key of the
\* chunk's own coordinates.
ChunksData(chunks, lc, fog) ==
    LET idx == 1..Len(chunks)
        keys == {chunks[i].chunkKey : i \in idx}
        Last(k) == CHOOSE i \in idx :
                      /\ chunks[i].chunkKey = k
                      /\ \A j \in idx : chunks[j].chunkKey = k => j <= i
        maskless == {i \in idx : chunks[i].chunkKey \notin DOMAIN fog}
        made == {getChunkKey(chunks[i].chunk.x, chunks[i].chunk.y) : i \in maskless}
    IN [loadedChunks |-> [k \in keys |-> chunks[Last(k)].chunk] @@ lc,
        fogOfWar |->
            fog @@ [k \in made |-> [createdBy |-> "chunks_data", content |-> FilledContent]]]

\* the answer of the server to a request_chunks batch
AnswerTo(chunkCoords) ==
    [i \in 1..Len(chunkCoords) |-> ChunkEntry(chunkCoords[i].x, chunkCoords[i].y)]

\* chunkKey.split(',').map(Number) of restoreFogOfWarFromServer, for the keys
\* getChunkKey writes
ParseRange == -16..16
Number(str) == CHOOSE n \in ParseRange : ToString(n) = str
ParseChunkKey(chunkKey) ==
    LET comma == CHOOSE i \in 1..Len(chunkKey) : SubSeq(chunkKey, i, i) = "," IN
    [x |-> Number(SubSeq(chunkKey, 1, comma - 1)),
     y |-> Number(SubSeq(chunkKey, comma + 1, Len(chunkKey)))]

\* restoreFogOfWarFromServer: one Image per entry, its onload still to run
RestoreFogOfWarFromServer(fogOfWarData) ==
    {[chunkKey |-> k, img |-> ImageOf(fogOfWarData[k])] : k \in DOMAIN fogOfWarData}

\* (mutant of ImageOnload: no mask is made for a key that has none)
ImageOnloadExistingOnly(fog, p) ==
    IF p.chunkKey \in DOMAIN fog
    THEN [fog EXCEPT ![p.chunkKey].content = << [op |-> "drawImage", img |-> p.img] >>]
    ELSE fog

\* img.onload of restoreFogOfWarFromServer: the new fogOfWar
ImageOnload(fog, p) ==
    LET c == ParseChunkKey(p.chunkKey)
        fog2 == IF p.chunkKey \notin DOMAIN fog
                THEN InitializeChunkFogOfWar(fog, c.x, c.y, "restore")
                ELSE fog
    IN IF p.chunkKey \in DOMAIN fog2
       THEN [fog2 EXCEPT ![p.chunkKey].content = << [op |-> "drawImage", img |-> p.img] >>]
       ELSE fog2

\* saveFogOfWarToServer: the events it emits, isConnected being conn
SaveFogOfWarToServer(fog, explored, conn) ==
    IF conn
    THEN << [event |-> "save_fog_of_war",
             fogOfWarData |-> [k \in DOMAIN fog |-> ToDataURL(fog[k].content)],
             exploredAreas |-> explored] >>
    ELSE << >>

-----------------------------------------------------------------------------
(* Reveal operations *)

revealDuration == 800

\* a radius is kept as an exact fraction
Fraction(num, den) == [num |-> num, den |-> den]

\* anim.radius = anim.targetRadius * easeOutQuad(Math.min(elapsed / duration, 1)),
\* with easeOutQuad(t) = 1 - (1 - t)(1 - t) = e (2 d - e) / d^2 for t = e / d
EasedRadius(targetRadius, elapsed, duration) ==
    LET e == Min(elapsed, duration) IN
    IF IsFinite(targetRadius)
    THEN Fraction(targetRadius * e * (2 * duration - e), duration * duration)
    ELSE IF targetRadius = Infinity /\ e > 0
    THEN Fraction(Infinity, 1)   \* Infinity * t for t > 0
    ELSE Fraction(NaN, 1)        \* NaN * t, Infinity * 0

\* anim.x - chunk.worldX
LocalCoord(v, origin) == IF IsFinite(v) THEN v - origin ELSE v

\* (mutant of RevealArea: the test for a mask forgotten)
RevealAreaUnchecked(anims, fog, x, y, radius) ==
    LET chunkCoords == getChunkCoords(x, y) IN
    Append(anims, [x |-> x, y |-> y, radius |-> Fraction(0, 1),
                   targetRadius |-> radius, elapsed |-> 0,
                   duration |-> revealDuration,
                   chunkX |-> chunkCoords.x, chunkY |-> chunkCoords.y])

\* revealArea: the new revealAnimations
RevealArea(anims, fog, x, y, radius) ==
    LET chunkCoords == getChunkCoords(x, y)
        chunkKey == getChunkKey(chunkCoords.x, chunkCoords.y)
    IN IF chunkKey \notin DOMAIN fog THEN anims
       ELSE Append(anims, [x |-> x, y |-> y, radius |-> Fraction(0, 1),
                           targetRadius |-> radius, elapsed |-> 0,
                           duration |-> revealDuration,
                           chunkX |-> chunkCoords.x, chunkY |-> chunkCoords.y])

\* (mutant of UpdateRevealAnimations: the filter's result is decided inside
\* the test for the mask and the chunk, so an operation that cannot erase is kept)
RECURSIVE UpdateRevealAnimationsKeepsIdle(_, _, _, _, _)
UpdateRevealAnimationsKeepsIdle(anims, i, kept, fog, lc) ==
    IF i > Len(anims) THEN [revealAnimations |-> kept, fogOfWar |-> fog]
    ELSE LET anim == anims[i]
             radius == EasedRadius(anim.targetRadius, anim.elapsed, anim.duration)
             chunkKey == getChunkKey(anim.chunkX, anim.chunkY)
             erases == /\ chunkKey \in DOMAIN fog
                       /\ chunkKey \in DOMAIN lc
                       /\ IsFinite(radius.num) /\ Positive(radius.num)
                       /\ IsFinite(LocalCoord(anim.x, lc[chunkKey].worldX))
                       /\ IsFinite(LocalCoord(anim.y, lc[chunkKey].worldY))
             fog2 == IF erases
                     THEN [fog EXCEPT ![chunkKey].content =
                              Append(@, [op |-> "destination-out",
                                         x |-> LocalCoord(anim.x, lc[chunkKey].worldX),
                                         y |-> LocalCoord(anim.y, lc[chunkKey].worldY),
                                         radius |-> radius])]
                     ELSE fog
             kept2 == IF anim.elapsed < anim.duration \/ ~erases
                      THEN Append(kept, [anim EXCEPT !.radius = radius])
                      ELSE kept
         IN UpdateRevealAnimationsKeepsIdle(anims, i + 1, kept2, fog2, lc)

\* (mutant of UpdateRevealAnimations: the isFinite tests forgotten)
RECURSIVE UpdateRevealAnimationsNoFiniteTest(_, _, _, _, _)
UpdateRevealAnimationsNoFiniteTest(anims, i, kept, fog, lc) ==
    IF i > Len(anims) THEN [revealAnimations |-> kept, fogOfWar |-> fog]
    ELSE LET anim == anims[i]
             radius == EasedRadius(anim.targetRadius, anim.elapsed, anim.duration)
             chunkKey == getChunkKey(anim.chunkX, anim.chunkY)
             erases == /\ chunkKey \in DOMAIN fog
                       /\ chunkKey \in DOMAIN lc
                       /\ Positive(radius.num)
             fog2 == IF erases
                     THEN [fog EXCEPT ![chunkKey].content =
                              Append(@, [op |-> "destination-out",
                                         x |-> LocalCoord(anim.x, lc[chunkKey].worldX),
                                         y |-> LocalCoord(anim.y, lc[chunkKey].worldY),
                                         radius |-> radius])]
                     ELSE fog
             kept2 == IF anim.elapsed < anim.duration
                      THEN Append(kept, [anim EXCEPT !.radius = radius])
                      ELSE kept
         IN UpdateRevealAnimationsNoFiniteTest(anims, i + 1, kept2, fog2, lc)

\* updateRevealAnimations from the i-th operation on: kept are the operations
\* the filter keeps, fog the masks after the erasures
RECURSIVE UpdateRevealAnimations(_, _, _, _, _)
UpdateRevealAnimations(anims, i, kept, fog, lc) ==
    IF i > Len(anims) THEN [revealAnimations |-> kept, fogOfWar |-> fog]
    ELSE LET anim == anims[i]
             radius == EasedRadius(anim.targetRadius, anim.elapsed, anim.duration)
             chunkKey == getChunkKey(anim.chunkX, anim.chunkY)
             erases == /\ chunkKey \in DOMAIN fog
                       /\ chunkKey \in DOMAIN lc
                       /\ IsFinite(radius.num) /\ Positive(radius.num)
                       /\ IsFinite(LocalCoord(anim.x, lc[chunkKey].worldX))
                       /\ IsFinite(LocalCoord(anim.y, lc[chunkKey].worldY))
             fog2 == IF erases
                     THEN [fog EXCEPT ![chunkKey].content =
                              Append(@, [op |-> "destination-out",
                                         x |-> LocalCoord(anim.x, lc[chunkKey].worldX),
                                         y |-> LocalCoord(anim.y, lc[chunkKey].worldY),
                                         radius |-> radius])]
                     ELSE fog
             kept2 == IF anim.elapsed < anim.duration
                      THEN Append(kept, [anim EXCEPT !.radius = radius])
                      ELSE kept
         IN UpdateRevealAnimations(anims, i + 1, kept2, fog2, lc)

-----------------------------------------------------------------------------
(* Opacity of a mask: the alpha channel of its canvas, 8 bits a pixel,       *)
(* rounded to the nearest value.  Antialiasing at the rim of an arc is left  *)
(* out.                                                                      *)

RECURSIVE GCD(_, _)
GCD(a, b) == IF b = 0 THEN a ELSE GCD(b, a % b)

\* num / den rounded to the nearest integer, for num >= 0 and den > 0
Round(num, den) == (2 * num + den) \div (2 * den)

\* the alpha of a CSS colour rgba(r, g, b, tenths / 10)
AlphaOf(tenths) == Round(255 * tenths, 10)

\* the distance of the pixel p from the point (x, y): exact on the row and
\* the column of the point, rounded down elsewhere
Distance(p, x, y) ==
    LET dx == Abs(p.x - x)
        dy == Abs(p.y - y)
    IN IF dy = 0 THEN dx
       ELSE IF dx = 0 THEN dy
       ELSE CHOOSE d \in 0..(dx + dy) : d * d <= dx * dx + dy * dy
                                        /\ (d + 1) * (d + 1) > dx * dx + dy * dy

\* the alpha at distance d from the centre of the gradient that
\* updateRevealAnimations fills the arc of the given radius with: stops
\* 0 -> 0.9, 0.7 -> 0.5, 1 -> 0, linear between them; 0 outside the arc
GradientAlpha(d, radius) ==
    LET g == GCD(radius.num, radius.den)
        n == radius.num \div g
        m == radius.den \div g
    IN IF n <= 0 \/ d * m >= n THEN 0
       ELSE IF 10 * d * m <= 7 * n
       THEN Round(255 * (63 * n - 40 * d * m), 70 * n)
       ELSE Round(255 * 5 * (n - d * m), 3 * n)

\* source-over and destination-out of a source of alpha s on a pixel of alpha a
SourceOver(a, s) == s + Round(a * (255 - s), 255)
DestinationOut(a, s) == Round(a * (255 - s), 255)

\* the alpha of the pixel p of a canvas after the first n operations of content
RECURSIVE Alpha(_, _, _)
Alpha(content, n, p) ==
    IF n = 0 THEN 0
    ELSE LET op == content[n]
             a == Alpha(content, n - 1, p)
         IN CASE op.op = "fillRect" -> SourceOver(a, AlphaOf(9))
              [] op.op = "drawImage" -> SourceOver(a, Alpha(op.img, Len(op.img), p))
              [] op.op = "destination-out" ->
                    DestinationOut(a, GradientAlpha(Distance(p, op.x, op.y), op.radius))

\* the opacity of a mask at the pixel p
Opacity(mask, p) == Alpha(mask.content, Len(mask.content), p)

-----------------------------------------------------------------------------
(* Inputs of the chunk cache and the fog *)

\* camera positions: their chunks are (0, 0) and (2, 0), whose squares overlap
CameraInputs == { Camera(0, 0, 100), Camera(700, -200, 50) }

PeerRecord(id) == [socket_id |-> id, player_name |-> id, camera |-> Camera(0, 0, 100)]

\* a fog mask as an earlier session saved it: filled, then erased once
SavedContent ==
    Append(FilledContent, [op |-> "destination-out", x |-> 100, y |-> 100,
                           radius |-> Fraction(64, 1)])
\* fog_of_war payloads: chunk key -> data URL
FogInputs ==
    { [k \in {getChunkKey(0, 0)} |-> ToDataURL(SavedContent)],
      [k \in {getChunkKey(0, 0), getChunkKey(9, 9)} |-> ToDataURL(SavedContent)] }

PlayerDataFresh ==
    [resources |-> Some(InitialResources), population |-> Some(5),
     buildings |-> Some(<< >>), scouts |-> Some(<< >>),
     camera |-> Some(Camera(0, 0, 100)),
     explored_areas |-> Absent, fog_of_war |-> Absent]
PlayerDataInputs ==
    {PlayerDataFresh}
    \cup { [PlayerDataFresh EXCEPT !.camera = Some(cam), !.fog_of_war = Some(f)] :
              cam \in CameraInputs \ {Camera(0, 0, 100)}, f \in FogInputs }
    \cup { [resources |-> Some(r), population |-> Some(0),
            buildings |-> Some(<< Building("temple", LocalId) >>),
            scouts |-> Some(<< Scout(1, TRUE) >>),
            camera |-> Absent,
            explored_areas |-> Some({getChunkKey(0, 0)}), fog_of_war |-> Absent] :
              r \in ResourceInputs }
WorldJoinedInputs ==
    { [worldId |-> w, playerData |-> pd, otherPlayers |-> op] :
        w \in {"world1"}, pd \in PlayerDataInputs,
        op \in { << >>, << PeerRecord("peer1") >>,
                 << PeerRecord("peer2"), PeerRecord("peer1") >> } }
\* the snapshots of a new player: only the camera and the fog differ
FreshWorldInputs ==
    { data \in WorldJoinedInputs :
        /\ data.otherPlayers = << >>
        /\ data.playerData.resources = Some(InitialResources) }

\* The chunk batches the server may send: the answer to the request a pass
\* makes now, the answer to a request made at a camera position when nothing
\* was resident (it may arrive late), or chunks not asked for
UnsolicitedBatches == { << [x |-> 0, y |-> 0] >>, << [x |-> 9, y |-> 9] >> }
ChunkBatches ==
    ({NeededChunks(loadedChunks, CameraChunk(camera))} \ {<< >>})
    \cup {SquareCoords(CameraChunk(cam)) : cam \in CameraInputs}
    \cup UnsolicitedBatches

RevealInputs == { [scoutId |-> 1, x |-> 100, y |-> 100, range |-> 64],
                  [scoutId |-> 1, x |-> 9 * chunkSize + 10, y |-> 9 * chunkSize + 10,
                   range |-> 32] }

\* reveal operations alive at a time
MaxAnimations == 2
\* a reveal is taken while no mask holds more drawing operations than this
MaxContent == 17

-----------------------------------------------------------------------------
(* Handlers of the chunk cache and the fog *)

\* handleWorldJoined
OnWorldJoined(data) ==
    LET playerData == data.playerData
        cam == IF IsPresent(playerData.camera) THEN Get(playerData.camera) ELSE camera
        l == LoadNearbyChunks(loadedChunks, fogOfWar, cam, isConnected)
    IN
    /\ CanReceive
    /\ worldId' = data.worldId
    /\ resources' = IF TruthyObject(playerData.resources)
                    THEN Get(playerData.resources) ELSE resources
    /\ population' = IF TruthyNumber(playerData.population)
                     THEN Get(playerData.population) ELSE population
    /\ buildings' = IF TruthyObject(playerData.buildings)
                    THEN Get(playerData.buildings) ELSE buildings
    /\ scouts' = IF TruthyObject(playerData.scouts) THEN Get(playerData.scouts) ELSE scouts
    /\ camera' = cam
    /\ exploredAreas' = IF TruthyObject(playerData.explored_areas)
                        THEN Get(playerData.explored_areas) ELSE exploredAreas
    /\ otherPlayers' =
          LET ps == data.otherPlayers
              ids == {ps[i].socket_id : i \in 1..Len(ps)}
              Last(id) == CHOOSE i \in 1..Len(ps) :
                              /\ ps[i].socket_id = id
                              /\ \A j \in 1..Len(ps) : ps[j].socket_id = id => j <= i
          IN [id \in ids |-> ps[Last(id)]]
    /\ pendingImages' =
          IF TruthyObject(playerData.fog_of_war)
          THEN pendingImages \cup RestoreFogOfWarFromServer(Get(playerData.fog_of_war))
          ELSE pendingImages
    /\ loadedChunks' = l.loadedChunks
    /\ fogOfWar' = l.fogOfWar
    /\ Did("world_joined", l.emitted, << Notice(data.worldId, "success") >>, FALSE)
    /\ UNCHANGED <<connVars, placeVars, revealAnimations, dragVars, timeVars>>

\* handleChunksData, for the answer to the batch coords (asked for or not)
OnChunksData(coords) ==
    LET r == ChunksData(AnswerTo(coords), loadedChunks, fogOfWar) IN
    /\ CanReceive
    /\ loadedChunks' = r.loadedChunks
    /\ fogOfWar' = r.fogOfWar
    /\ Did("chunks_data", << >>, << >>, FALSE)
    /\ UNCHANGED <<connVars, sessionVars, placeVars, camera, revealAnimations,
                   pendingImages, dragVars, timeVars>>

\* img.onload of an Image of restoreFogOfWarFromServer
ImageLoaded(p) ==
    /\ p \in pendingImages
    /\ pendingImages' = pendingImages \ {p}
    /\ fogOfWar' = ImageOnload(fogOfWar, p)
    /\ Did("image_loaded", << >>, << >>, FALSE)
    /\ UNCHANGED <<connVars, sessionVars, placeVars, camera, loadedChunks,
                   revealAnimations, dragVars, timeVars>>

\* handleAreaExplored
OnAreaExplored(data) ==
    /\ CanReceive
    /\ Len(revealAnimations) < MaxAnimations
    /\ \A k \in DOMAIN fogOfWar : Len(fogOfWar[k].content) <= MaxContent
    /\ revealAnimations' = RevealArea(revealAnimations, fogOfWar, data.x, data.y, data.range)
    /\ Did("area_explored", SaveFogOfWarToServer(fogOfWar, exploredAreas, isConnected),
           << Notice("Area explored!", "success") >>, FALSE)
    /\ UNCHANGED <<connVars, sessionVars, placeVars, camera, loadedChunks, fogOfWar,
                   pendingImages, dragVars, timeVars>>

\* update(deltaTime), run by gameLoop in a requestAnimationFrame callback;
\* save tells whether Math.random() < 0.01
Tick(save) ==
    LET l == LoadNearbyChunks(loadedChunks, fogOfWar, camera, isConnected)
        u == UpdateRevealAnimations(revealAnimations, 1, << >>, l.fogOfWar, l.loadedChunks)
        s == IF save THEN SaveFogOfWarToServer(u.fogOfWar, exploredAreas, isConnected)
             ELSE << >>
    IN
    /\ frameDue
    /\ frameDue' = FALSE
    /\ loadedChunks' = l.loadedChunks
    /\ fogOfWar' = u.fogOfWar
    /\ revealAnimations' = u.revealAnimations
    /\ Did("tick", l.emitted \o s, << >>, FALSE)
    /\ UNCHANGED <<connVars, sessionVars, placeVars, camera, pendingImages, dragVars,
                   inThrottle, throttleTimer, sinceThrottled, windowMoves>>

-----------------------------------------------------------------------------
(* Local input, the camera-update throttle and time *)

throttleLimit == 100
keySpeed == 50

\* time passes in steps of half a throttle window; a frame is due after each
TimeStep == throttleLimit \div 2

\* drag movements counted in one throttle window
MaxMoves == 10
\* how far the camera is panned from a camera position the server supplied
MaxPan == 50

MousePositions == { [x |-> 0, y |-> 0], [x |-> 50, y |-> 50] }
MouseEvents == { [x |-> p.x, y |-> p.y, button |-> b] : p \in MousePositions, b \in {0, 2} }
Keys == {"w", "a", "s", "d", "escape"}

PanOK(cam) ==
    \E base \in CameraInputs :
        Abs(cam.x - base.x) <= MaxPan /\ Abs(cam.y - base.y) <= MaxPan

\* screenToWorld(screenX, screenY), exactly
screenToWorld(screenX, screenY) ==
    [x |-> Fraction(100 * screenX + camera.x * camera.scalePct, camera.scalePct),
     y |-> Fraction(100 * screenY + camera.y * camera.scalePct, camera.scalePct)]

\* (mutant of SendScoutToExplore: the isConnected test forgotten)
SendScoutUnguarded(x, y, conn) ==
    [emitted |-> << [event |-> "send_scout", targetX |-> x, targetY |-> y] >>,
     notices |-> << >>]

\* sendScoutToExplore: the events emitted and the notices shown
SendScoutToExplore(x, y, conn) ==
    IF conn
    THEN [emitted |-> << [event |-> "send_scout", targetX |-> x, targetY |-> y] >>,
          notices |-> << >>]
    ELSE [emitted |-> << >>,
          notices |-> << Notice("Not connected to server!", "error") >>]

\* tryPlaceBuilding: the events emitted and the notices shown
TryPlaceBuilding(screenX, screenY, conn) ==
    IF ~conn
    THEN [emitted |-> << >>,
          notices |-> << Notice("Not connected to server!", "error") >>]
    ELSE LET worldPos == screenToWorld(screenX, screenY) IN
         [emitted |-> << [event |-> "place_building", buildingType |-> selectedBuilding,
                          x |-> worldPos.x, y |-> worldPos.y] >>,
          notices |-> << >>]

\* the function throttle() wraps at lines 415-421: the events it emits
CameraUpdate(cam, conn) ==
    IF conn THEN << [event |-> "update_camera", camera |-> cam] >> ELSE << >>

\* (mutant of Throttle: func runs at every call)
ThrottleNever(it, timer) ==
    [runs |-> TRUE, inThrottle |-> TRUE, timer |-> throttleLimit]

\* the function throttle(func, limit) returns, called with inThrottle = it:
\* whether func runs, and the new inThrottle and timer
Throttle(it, timer) ==
    IF ~it
    THEN [runs |-> TRUE, inThrottle |-> TRUE, timer |-> throttleLimit]
    ELSE [runs |-> FALSE, inThrottle |-> it, timer |-> timer]

\* handleMouseDown
HandleMouseDown(e) ==
    /\ IF placementMode /\ selectedBuilding # Null
       THEN LET t == TryPlaceBuilding(e.x, e.y, isConnected) IN
            /\ Did("mousedown", t.emitted, t.notices, FALSE)
            /\ UNCHANGED dragVars
       ELSE IF e.button = 2
       THEN LET worldPos == screenToWorld(e.x, e.y)
                t == SendScoutToExplore(worldPos.x, worldPos.y, isConnected)
            IN /\ Did("mousedown", t.emitted, t.notices, FALSE)
               /\ UNCHANGED dragVars
       ELSE /\ isDragging' = TRUE
            /\ dragStart' = [x |-> e.x, y |-> e.y]
            /\ cameraStart' = [x |-> camera.x, y |-> camera.y]
            /\ Did("mousedown", << >>, << >>, FALSE)
    /\ UNCHANGED <<connVars, sessionVars, placeVars, camera, cacheVars, timeVars>>

\* handleMouseMove, with the call of throttledCameraUpdate
HandleMouseMove(e) ==
    IF ~isDragging
    THEN /\ Did("mousemove", << >>, << >>, FALSE)
         /\ UNCHANGED <<connVars, sessionVars, placeVars, camera, cacheVars, dragVars,
                        timeVars>>
    ELSE LET cam == [camera EXCEPT !.x = cameraStart.x - (e.x - dragStart.x),
                                   !.y = cameraStart.y - (e.y - dragStart.y)]
             t == Throttle(inThrottle, throttleTimer)
         IN /\ PanOK(cam)
            /\ t.runs \/ windowMoves < MaxMoves
            /\ camera' = cam
            /\ inThrottle' = t.inThrottle
            /\ throttleTimer' = t.timer
            /\ sinceThrottled' = IF t.runs THEN 0 ELSE sinceThrottled
            /\ windowMoves' = IF t.runs THEN 1 ELSE windowMoves + 1
            /\ Did("mousemove",
                   IF t.runs THEN CameraUpdate(cam, isConnected) ELSE << >>,
                   << >>, FALSE)
            /\ UNCHANGED <<connVars, sessionVars, placeVars, cacheVars, dragVars, frameDue>>

\* handleMouseUp
HandleMouseUp ==
    /\ isDragging' = FALSE
    /\ Did("mouseup", << >>, << >>, FALSE)
    /\ UNCHANGED <<connVars, sessionVars, placeVars, camera, cacheVars,
                   dragStart, cameraStart, timeVars>>

\* handleKeyDown
HandleKeyDown(key) ==
    LET cam == CASE key = "w" -> [camera EXCEPT !.y = @ - keySpeed]
                 [] key = "s" -> [camera EXCEPT !.y = @ + keySpeed]
                 [] key = "a" -> [camera EXCEPT !.x = @ - keySpeed]
                 [] key = "d" -> [camera EXCEPT !.x = @ + keySpeed]
                 [] OTHER -> camera
        c == IF key = "escape" THEN CancelPlacement(selectedBuilding, placementMode)
             ELSE [selectedBuilding |-> selectedBuilding, placementMode |-> placementMode,
                   threw |-> FALSE]
    IN /\ PanOK(cam)
       /\ camera' = cam
       /\ selectedBuilding' = c.selectedBuilding
       /\ placementMode' = c.placementMode
       /\ Did("keydown", << >>, << >>, c.threw)
       /\ UNCHANGED <<connVars, sessionVars, cacheVars, dragVars, timeVars>>

\* selectBuilding
SelectBuilding(buildingType) ==
    /\ selectedBuilding' = buildingType
    /\ placementMode' = TRUE
    /\ Did("selectBuilding", << >>, << Notice(buildingType, "success") >>, FALSE)
    /\ UNCHANGED <<connVars, sessionVars, camera, cacheVars, dragVars, timeVars>>

\* the setTimeout callback of throttle(): inThrottle = false
ThrottleTimerFires ==
    /\ throttleTimer = 0
    /\ throttleTimer' = -1
    /\ inThrottle' = FALSE
    /\ Did("throttle_timer", << >>, << >>, FALSE)
    /\ UNCHANGED <<connVars, sessionVars, placeVars, camera, cacheVars, dragVars,
                   sinceThrottled, windowMoves, frameDue>>

\* TimeStep ms pass.  A timer callback that is due runs before more time
\* passes, and so does the frame callback of the step before.
AdvanceTime ==
    /\ ~frameDue
    /\ throttleTimer # 0
    /\ frameDue' = TRUE
    /\ throttleTimer' = IF throttleTimer < 0 THEN throttleTimer
                        ELSE Max(0, throttleTimer - TimeStep)
    /\ sinceThrottled' = IF sinceThrottled < 0 THEN sinceThrottled
                         ELSE Min(throttleLimit, sinceThrottled + TimeStep)
    /\ revealAnimations' =
          [i \in 1..Len(revealAnimations) |->
              [revealAnimations[i] EXCEPT !.elapsed = @ + TimeStep]]
    /\ Did("time", << >>, << >>, FALSE)
    /\ UNCHANGED <<connVars, sessionVars, placeVars, camera, loadedChunks, fogOfWar,
                   pendingImages, dragVars, inThrottle, windowMoves>>

-----------------------------------------------------------------------------
(* The state after the constructor: init() has called connectToServer, so    *)
(* this.socket is a socket whose handshake is under way, and gameLoop has    *)
(* run update() once, which found no chunk to evict and sent nothing.        *)

EmptyMap == [k \in {} |-> k]

Init ==
    /\ socket = "pending"
    /\ staleSockets = [pending |-> 0, connected |-> 0]
    /\ isConnected = FALSE
    /\ reconnectAttempts = 0
    /\ timers = EmptyBag
    /\ scheduledDelays = << >>
    /\ worldId = Null
    /\ otherPlayers = EmptyMap
    /\ camera = Camera(0, 0, 100)
    /\ resources = InitialResources
    /\ population = 5
    /\ buildings = << >>
    /\ scouts = << >>
    /\ selectedBuilding = Null
    /\ placementMode = FALSE
    /\ exploredAreas = {}
    /\ loadedChunks = EmptyMap
    /\ fogOfWar = EmptyMap
    /\ revealAnimations = << >>
    /\ pendingImages = {}
    /\ isDragging = FALSE
    /\ dragStart = [x |-> 0, y |-> 0]
    /\ cameraStart = [x |-> 0, y |-> 0]
    /\ inThrottle = FALSE
    /\ throttleTimer = -1
    /\ sinceThrottled = -1
    /\ windowMoves = 0
    /\ frameDue = FALSE
    /\ emitted = << >>
    /\ notifications = << >>
    /\ threw = FALSE
    /\ lastEvent = "init"

-----------------------------------------------------------------------------
(* Next-state relations.  Next is the whole client.  The other relations     *)
(* are the client with part of its environment silent: each leaves out       *)
(* handlers only, never a part of a handler.                                 *)

Which == {"current", "stale"}

Connects == \E w \in Which : OnConnect(w)
Disconnects == \E w \in Which, after \in {"pending", "closed"} : OnDisconnect(w, after)
TimersFire == \E d \in BagToSet(timers) : TimerFires(d)
ConnectErrors == \E w \in Which : OnConnectError(w)

BuildingPlacedInputs ==
    [playerId : {LocalId, "peer1"}, building : BuildingInputs, playerResources : ResourceInputs]
PlayerUpdatedInputs ==
    [playerId : {LocalId, "peer1"},
     resources : {Absent} \cup {Some(r) : r \in ResourceInputs},
     population : {Absent} \cup {Some(n) : n \in PopulationInputs},
     scouts : {Absent} \cup {Some(ss) : ss \in ScoutsInputs}]

SessionEvents ==
    \/ \E data \in BuildingPlacedInputs : OnBuildingPlaced(data)
    \/ \E reason \in Reasons : OnBuildingRejected([reason |-> reason])
    \/ \E id \in PlayerIds : OnScoutSent([playerId |-> id, scout |-> Scout(1, TRUE)])
    \/ \E reason \in Reasons : OnScoutRejected([reason |-> reason])
    \/ \E data \in PlayerUpdatedInputs : OnPlayerUpdated(data)

RosterEvents ==
    \/ \E id \in PeerIds :
          OnPlayerJoined([socketId |-> id, playerName |-> id, camera |-> Camera(0, 0, 100)])
    \/ \E id \in PeerIds : OnPlayerLeft([playerId |-> id])
    \/ \E id \in PeerIds, cam \in CameraInputs :
          OnPlayerCameraUpdated([playerId |-> id, camera |-> cam])

CacheEvents ==
    \/ \E data \in WorldJoinedInputs : OnWorldJoined(data)
    \/ \E coords \in ChunkBatches : OnChunksData(coords)
    \/ \E p \in pendingImages : ImageLoaded(p)

Frames ==
    \/ \E save \in BOOLEAN : Tick(save)
    \/ AdvanceTime

LocalInput ==
    \/ \E e \in MouseEvents : HandleMouseDown(e)
    \/ \E e \in MousePositions : HandleMouseMove(e)
    \/ HandleMouseUp
    \/ \E key \in Keys : HandleKeyDown(key)
    \/ \E b \in BuildingTypes : SelectBuilding(b)
    \/ ThrottleTimerFires

Next ==
    \/ Connects \/ Disconnects \/ ConnectErrors \/ TimersFire \/ CreateNewWorld
    \/ SessionEvents \/ RosterEvents \/ CacheEvents
    \/ \E data \in RevealInputs : OnAreaExplored(data)
    \/ Frames \/ LocalInput

Spec == Init /\ [][Next]_vars

\* the connection lifecycle alone: no world event, no input, no frame
SyncNext == Connects \/ Disconnects \/ TimersFire \/ CreateNewWorld
SpecSync == Init /\ [][SyncNext]_vars

\* the session reconciled from server events while the player picks buildings
SessionNext ==
    \/ Connects
    \/ SessionEvents
    \/ \E id \in PeerIds :
          OnPlayerJoined([socketId |-> id, playerName |-> id, camera |-> Camera(0, 0, 100)])
    \/ \E b \in BuildingTypes : SelectBuilding(b)
SpecSession == Init /\ [][SessionNext]_vars

\* the chunk cache and the fog masks under world snapshots, chunk deliveries,
\* fog restores and frames
CacheNext ==
    \/ Connects
    \/ \E data \in FreshWorldInputs : OnWorldJoined(data)
    \/ \E coords \in ChunkBatches : OnChunksData(coords)
    \/ \E p \in pendingImages : ImageLoaded(p)
    \/ Frames
SpecCache == Init /\ [][CacheNext]_vars

\* the player at the mouse while frames run and the connection is made, lost
\* once (its reconnect timer still pending) and made again
InputNext ==
    \/ Connects
    \/ reconnectAttempts = 0 /\ timers = EmptyBag /\ OnDisconnect("current", "pending")
    \/ \E e \in MouseEvents : HandleMouseDown(e)
    \/ \E e \in MousePositions : HandleMouseMove(e)
    \/ HandleMouseUp
    \/ SelectBuilding("farm")
    \/ ThrottleTimerFires
    \/ Frames
SpecInput == Init /\ [][InputNext]_vars

\* world snapshots that differ in the roster only
RosterWorldInputs == { data \in WorldJoinedInputs : data.playerData = PlayerDataFresh }

\* the peer roster under world snapshots and the roster events, the
\* connection being lost once
RosterNext ==
    \/ Connects
    \/ reconnectAttempts = 0 /\ timers = EmptyBag /\ OnDisconnect("current", "pending")
    \/ \E data \in RosterWorldInputs : OnWorldJoined(data)
    \/ RosterEvents
SpecRoster == Init /\ [][RosterNext]_vars

\* world snapshots of a player at the origin: without saved fog, and with
\* the saved mask of the chunk at the origin
FogWorldInputs ==
    { [worldId |-> "world1",
       playerData |-> [PlayerDataFresh EXCEPT !.fog_of_war = f],
       otherPlayers |-> << >>] :
          f \in {Absent} \cup {Some(d) : d \in {i \in FogInputs : DOMAIN i = {getChunkKey(0, 0)}}} }

\* the fog masks under reveals that come one after the other, frames that do
\* not save, fog restores and the deliveries of the chunks asked for, the
\* camera staying at the origin
FogNext ==
    \/ Connects
    \/ \E data \in FogWorldInputs : OnWorldJoined(data)
    \/ \E coords \in {NeededChunks(loadedChunks, CameraChunk(camera))} \ {<< >>} :
          OnChunksData(coords)
    \/ \E p \in pendingImages : ImageLoaded(p)
    \/ (revealAnimations = << >> /\ \E data \in RevealInputs : OnAreaExplored(data))
    \/ Tick(FALSE)
    \/ AdvanceTime
SpecFog == Init /\ [][FogNext]_vars

\* camera.scale values a snapshot can carry (handleWheel keeps it in 0.3..2)
ZoomInputs == {30, 50, 100, 200}
ScenarioWorldInputs ==
    { [worldId |-> "world1",
       playerData |-> [PlayerDataFresh EXCEPT !.camera = Some(Camera(0, 0, z))],
       otherPlayers |-> << >>] : z \in ZoomInputs }

\* the player whose camera is at the origin, at several zooms, while the
\* connection is made and lost once, frames run and the chunks asked for come
ScenarioNext ==
    \/ Connects
    \/ reconnectAttempts = 0 /\ timers = EmptyBag /\ OnDisconnect("current", "pending")
    \/ \E data \in ScenarioWorldInputs : OnWorldJoined(data)
    \/ \E coords \in {NeededChunks(loadedChunks, CameraChunk(camera))} \ {<< >>} :
          OnChunksData(coords)
    \/ Frames
SpecScenario == Init /\ [][ScenarioNext]_vars

\* the connection under transport losses and failed handshakes.  The timers
\* of attemptReconnect run when they are due (the browser runs a setTimeout
\* callback); nothing makes the server accept a handshake, so the connect
\* events have no fairness.
FaultNext == Connects \/ Disconnects \/ ConnectErrors \/ TimersFire
SpecFault ==
    /\ Init /\ [][FaultNext]_vars
    /\ WF_vars(TimersFire)

\* reveals on the chunk at the origin, whose mask a restore or the chunk's
\* delivery makes, the chunk coming alone, before or after the reveal or
\* never; a reveal is taken when no mask has been erased since it was made
\* or restored.  The game loop runs: requestAnimationFrame calls gameLoop again
\* after every frame, and the clock advances.
RevealNext ==
    \/ Connects
    \/ \E data \in FogWorldInputs : OnWorldJoined(data)
    \/ OnChunksData(<< [x |-> 0, y |-> 0] >>)
    \/ \E p \in pendingImages : ImageLoaded(p)
    \/ /\ revealAnimations = << >>
       /\ \A k \in DOMAIN fogOfWar : Len(fogOfWar[k].content) = 1
       /\ \E data \in RevealInputs : OnAreaExplored(data)
    \/ Tick(FALSE)
    \/ AdvanceTime
SpecReveal ==
    /\ Init /\ [][RevealNext]_vars
    /\ WF_vars(Tick(FALSE))
    /\ WF_vars(AdvanceTime)

\* the server answers the request_chunks event the last handler emitted
AnswersRequest ==
    \E i \in 1..Len(emitted) :
        /\ emitted[i].event = "request_chunks"
        /\ OnChunksData(emitted[i].chunkCoords)

\* chunk streaming with the camera at rest: the connection is made, lost once
\* and made again, the world is joined (its snapshot leaves the camera where
\* it is), single chunks come unasked, frames run, the clock advances and the server answers the requests it gets (a request
\* that is made again and again is answered in the end)
StreamNext ==
    \/ Connects
    \/ reconnectAttempts = 0 /\ timers = EmptyBag /\ OnDisconnect("current", "pending")
    \/ \E data \in FogWorldInputs : OnWorldJoined(data)
    \/ \E p \in pendingImages : ImageLoaded(p)
    \/ AnswersRequest
    \/ \E coords \in UnsolicitedBatches : OnChunksData(coords)
    \/ \E save \in BOOLEAN : Tick(save)
    \/ AdvanceTime
SpecStream ==
    /\ Init /\ [][StreamNext]_vars
    /\ WF_vars(\E save \in BOOLEAN : Tick(save))
    /\ WF_vars(AdvanceTime)
    /\ SF_vars(AnswersRequest)

\* area_explored payloads whose range is missing, infinite, zero or negative,
\* or whose x is infinite, and a sound one
OddRevealInputs ==
    { [scoutId |-> 1, x |-> 100, y |-> 100, range |-> r] : r \in {NaN, Infinity, 0, -5, 64} }
    \cup { [scoutId |-> 1, x |-> Infinity, y |-> 100, range |-> 64] }

\* reveals of every kind, two at a time, on the chunk at the origin, which
\* comes alone, while frames run and the clock advances
OddNext ==
    \/ Connects
    \/ OnChunksData(<< [x |-> 0, y |-> 0] >>)
    \/ Len(revealAnimations) < 2 /\ \E data \in OddRevealInputs : OnAreaExplored(data)
    \/ Tick(FALSE)
    \/ AdvanceTime
SpecOdd == Init /\ [][OddNext]_vars

\* snapshots of two worlds for a player at the origin, with or without
\* explored areas
TwoWorldInputs ==
    { [worldId |-> w,
       playerData |-> [PlayerDataFresh EXCEPT !.explored_areas = e],
       otherPlayers |-> << >>] :
          w \in {"world1", "world2"}, e \in {Absent, Some({getChunkKey(0, 0)})} }

\* a session that joins one world and then another, chunks being delivered,
\* one area being revealed and frames running in each
WorldsNext ==
    \/ Connects
    \/ \E data \in TwoWorldInputs : OnWorldJoined(data)
    \/ \E coords \in {NeededChunks(loadedChunks, CameraChunk(camera))} \ {<< >>} :
          OnChunksData(coords)
    \/ (/\ revealAnimations = << >>
        /\ \A k \in DOMAIN fogOfWar : Len(fogOfWar[k].content) = 1
        /\ OnAreaExplored([scoutId |-> 1, x |-> 100, y |-> 100, range |-> 64]))
    \/ Tick(FALSE)
    \/ AdvanceTime
SpecWorlds == Init /\ [][WorldsNext]_vars

-----------------------------------------------------------------------------
(* Claims *)

ReconnectFailedNotice == Notice("Unable to reconnect. Please refresh the page.", "error")
Shown(notice) == \E i \in 1..Len(notifications) : notifications[i] = notice
BackoffTable == << 2000, 4000, 8000, 10000, 10000 >>

\* a step in which the disconnect handler runs: a transport loss, or
\* createNewWorld closing the connected socket
DisconnectHandled ==
    \/ lastEvent' = "disconnect"
    \/ lastEvent' = "createNewWorld" /\ socket = "connected" /\ isConnected

-----------------------------------------------------------------------------
(* Chunk streaming *)

\* a step in which loadNearbyChunks runs: a frame, or a world_joined event
RecomputePass ==
    \/ \E save \in BOOLEAN : Tick(save)
    \/ \E data \in FreshWorldInputs : OnWorldJoined(data)

Square(C) ==
    {[x |-> a, y |-> b] : a \in (C.x - chunkLoadRadius)..(C.x + chunkLoadRadius),
                          b \in (C.y - chunkLoadRadius)..(C.y + chunkLoadRadius)}
NonResident(C) == {c \in Square(C) : getChunkKey(c.x, c.y) \notin DOMAIN loadedChunks}
Requests(events) ==
    LET IsRequest(e) == e.event = "request_chunks" IN SelectSeq(events, IsRequest)

\* C1: a recompute pass run while connected, C being the camera's chunk,
\* emits exactly one request_chunks event when some coordinate of the square
\* of radius chunkLoadRadius around C is not resident, and the coordinates
\* it lists are exactly the non-resident coordinates of the square, each
\* once; it emits no request_chunks event when the whole square is resident.
C1_RequestsExactlyMissing ==
    [][(RecomputePass /\ isConnected) =>
          LET missing == NonResident(CameraChunk(camera'))
              reqs == Requests(emitted')
          IN IF missing # {}
             THEN /\ Len(reqs) = 1
                  /\ {reqs[1].chunkCoords[i] : i \in 1..Len(reqs[1].chunkCoords)} = missing
                  /\ Len(reqs[1].chunkCoords) = Cardinality(missing)
             ELSE reqs = << >>]_vars

\* a pass run while connected asked for a part of the square only, the rest
\* of it being resident
C1_Witness ==
    /\ lastEvent \in {"tick", "world_joined"}
    /\ isConnected
    /\ Len(Requests(emitted)) = 1
    /\ Len(Requests(emitted)[1].chunkCoords) \in 1..48
    /\ \E c \in Square(CameraChunk(camera)) : getChunkKey(c.x, c.y) \in DOMAIN loadedChunks

\* the resident chunks farther than chunkLoadRadius + 1 from C
Far(C) ==
    {k \in DOMAIN loadedChunks :
        \/ Abs(loadedChunks[k].x - C.x) > chunkLoadRadius + 1
        \/ Abs(loadedChunks[k].y - C.y) > chunkLoadRadius + 1}

\* C2: a recompute pass with camera chunk C removes exactly the resident
\* chunks whose Chebyshev distance from C exceeds chunkLoadRadius + 1, and
\* with each the fog mask under the same key; every other resident chunk and
\* every other fog mask is left as it was.
C2_EvictsExactlyFar ==
    [][RecomputePass =>
          LET far == Far(CameraChunk(camera')) IN
          /\ DOMAIN loadedChunks' = DOMAIN loadedChunks \ far
          /\ \A k \in DOMAIN loadedChunks \ far : loadedChunks'[k] = loadedChunks[k]
          /\ DOMAIN fogOfWar' = DOMAIN fogOfWar \ far
          /\ \A k \in DOMAIN fogOfWar \ far : fogOfWar'[k] = fogOfWar[k]]_vars

\* after a frame a chunk at distance chunkLoadRadius + 1 is still resident
\* with its mask while its neighbour one chunk farther out, which arrived in
\* every batch that held it, is gone with its mask
C2_Witness ==
    LET C == CameraChunk(camera)
        kept == getChunkKey(C.x - chunkLoadRadius - 1, C.y)
        gone == getChunkKey(C.x - chunkLoadRadius - 2, C.y)
    IN /\ lastEvent = "tick"
       /\ kept \in DOMAIN loadedChunks /\ kept \in DOMAIN fogOfWar
       /\ gone \notin DOMAIN loadedChunks /\ gone \notin DOMAIN fogOfWar

\* C3: between handlers, every resident chunk has a fog mask under its key,
\* and every fog mask belongs to a resident chunk unless the mask was created
\* by restoreFogOfWarFromServer for a key whose chunk is not resident.
C3_MaskIffResident ==
    /\ \A k \in DOMAIN loadedChunks : k \in DOMAIN fogOfWar
    /\ \A k \in DOMAIN fogOfWar :
          k \notin DOMAIN loadedChunks => fogOfWar[k].createdBy = "restore"

\* restored masks exist both for a resident chunk and for a chunk that is not
\* resident, next to masks made when chunks were delivered
C3_Witness ==
    /\ \E k \in DOMAIN fogOfWar :
          k \notin DOMAIN loadedChunks /\ fogOfWar[k].createdBy = "restore"
    /\ \E k \in DOMAIN loadedChunks : fogOfWar[k].createdBy = "restore"
    /\ \E k \in DOMAIN loadedChunks : fogOfWar[k].createdBy = "chunks_data"
    /\ lastEvent = "tick"

-----------------------------------------------------------------------------
(* Outbound events *)

\* C5: no handler emits an outbound event unless the connection flag is set
\* when it emits, and a handler that starts while the flag is clear emits
\* nothing but the join_world of the connect handler itself: a request
\* attempted while not connected is dropped and is not sent on reconnect.
C5_NoEmitUnlessConnected ==
    [][/\ emitted' # << >> => isConnected'
       /\ ~isConnected =>
             \A i \in 1..Len(emitted') : emitted'[i].event = "join_world"]_vars

\* after the connection was lost a right click sent no scout and showed the
\* notice instead
C5_Witness ==
    /\ lastEvent = "mousedown"
    /\ ~isConnected
    /\ reconnectAttempts = 1
    /\ emitted = << >>
    /\ notifications = << Notice("Not connected to server!", "error") >>

\* C6: while connected, a drag movement emits update_camera with the new
\* camera when no window is open (no call before, or throttleLimit ms have
\* passed since the window opened and its timer has run), and emits nothing
\* while less than throttleLimit ms have passed since the window opened.  A
\* movement at the instant the window ends may fall on either side.
C6_LeadingEdgeThrottle ==
    [][\A e \in MousePositions :
          (HandleMouseMove(e) /\ isDragging /\ isConnected) =>
              IF sinceThrottled < 0 \/ (sinceThrottled >= throttleLimit /\ throttleTimer < 0)
              THEN emitted' = << [event |-> "update_camera", camera |-> camera'] >>
              ELSE sinceThrottled < throttleLimit => emitted' = << >>]_vars

\* the 10th movement of a window, the first of which was sent, emitted nothing
C6_Witness ==
    /\ lastEvent = "mousemove"
    /\ isConnected
    /\ isDragging
    /\ windowMoves = 10
    /\ sinceThrottled < throttleLimit
    /\ emitted = << >>

-----------------------------------------------------------------------------
(* Session reconciliation *)

\* C7: a building_placed event whose acting player id equals the local
\* connection id leaves the local resources equal to the event's
\* playerResources and placement mode off, whatever it was before.
C7_OwnBuildingPlaced ==
    [][\A data \in BuildingPlacedInputs :
          (OnBuildingPlaced(data) /\ data.playerId = SocketId) =>
              /\ resources' = data.playerResources
              /\ placementMode' = FALSE]_vars

\* C8: a building_placed event whose acting player id differs from the local
\* connection id appends the event's building as the last element of the
\* buildings list and leaves resources, population, scouts and placement
\* mode unchanged.
C8_PeerBuildingPlaced ==
    [][\A data \in BuildingPlacedInputs :
          (OnBuildingPlaced(data) /\ data.playerId # SocketId) =>
              /\ buildings' = Append(buildings, data.building)
              /\ buildings'[Len(buildings')] = data.building
              /\ UNCHANGED <<resources, population, scouts, placementMode>>]_vars

\* a peer's building was appended behind another one while the player was
\* placing a building and held resources other than the initial ones
C8_Witness ==
    /\ lastEvent = "building_placed"
    /\ Len(buildings) = 2
    /\ buildings[2] = Building("temple", "peer1")
    /\ buildings[1] # buildings[2]
    /\ placementMode
    /\ resources # InitialResources
    /\ SocketId = LocalId

\* C9: a building_rejected event handled while placement mode is active
\* turns placement mode off, shows the reason string unchanged, leaves
\* resources and buildings unchanged and emits nothing; scout_rejected emits
\* nothing and changes no session state.
C9_Rejections ==
    [][/\ \A reason \in Reasons :
             (OnBuildingRejected([reason |-> reason]) /\ placementMode) =>
                 /\ placementMode' = FALSE
                 /\ notifications' = << Notice(reason, "error") >>
                 /\ emitted' = << >>
                 /\ UNCHANGED <<resources, buildings>>
       /\ \A reason \in Reasons :
             OnScoutRejected([reason |-> reason]) =>
                 /\ emitted' = << >>
                 /\ UNCHANGED <<sessionVars, placeVars>>]_vars

\* C10: a player_updated event for the local connection id replaces
\* resources, population and scouts with every value it carries (population
\* 0 and an empty scouts list included); one for another connection id
\* leaves resources, population, scouts and the peer roster unchanged.
C10_PlayerUpdated ==
    [][\A data \in PlayerUpdatedInputs :
          OnPlayerUpdated(data) =>
              IF data.playerId = SocketId
              THEN /\ IsPresent(data.resources) => resources' = Get(data.resources)
                   /\ IsPresent(data.population) => population' = Get(data.population)
                   /\ IsPresent(data.scouts) => scouts' = Get(data.scouts)
              ELSE UNCHANGED <<resources, population, scouts, otherPlayers>>]_vars

-----------------------------------------------------------------------------
(* Peer roster *)

RosterIds(players) == {players[i].socket_id : i \in 1..Len(players)}

\* C11: the ids in the peer roster are those of the last world_joined
\* roster, plus those of later player_joined events, minus those of later
\* player_left events: world_joined replaces the ids, player_joined adds its
\* id, player_left removes its id, and no other step changes them; a
\* player_left or player_camera_updated event for an id that is not in the
\* roster leaves the roster as it is.
C11_RosterIds ==
    [][/\ \A data \in RosterWorldInputs :
             OnWorldJoined(data) => DOMAIN otherPlayers' = RosterIds(data.otherPlayers)
       /\ \A id \in PeerIds :
             OnPlayerJoined([socketId |-> id, playerName |-> id,
                             camera |-> Camera(0, 0, 100)]) =>
                 DOMAIN otherPlayers' = DOMAIN otherPlayers \cup {id}
       /\ \A id \in PeerIds :
             OnPlayerLeft([playerId |-> id]) =>
                 /\ DOMAIN otherPlayers' = DOMAIN otherPlayers \ {id}
                 /\ id \notin DOMAIN otherPlayers => otherPlayers' = otherPlayers
       /\ \A id \in PeerIds, cam \in CameraInputs :
             OnPlayerCameraUpdated([playerId |-> id, camera |-> cam]) =>
                 /\ DOMAIN otherPlayers' = DOMAIN otherPlayers
                 /\ id \notin DOMAIN otherPlayers => otherPlayers' = otherPlayers
       /\ lastEvent' \notin {"world_joined", "player_joined", "player_left",
                             "player_camera_updated"} => otherPlayers' = otherPlayers]_vars

\* a player_left event named an id the roster did not hold (no notice was
\* shown) while another peer was in the roster
C11_Witness ==
    /\ lastEvent = "player_left"
    /\ notifications = << >>
    /\ DOMAIN otherPlayers # {}

-----------------------------------------------------------------------------
(* Fog masks *)

\* the pixels the opacity of a mask is compared at: on the row of the centre
\* of a reveal (RevealInputs, in the coordinates of its chunk), at the
\* centre, inside the arc, one pixel inside its rim, on the rim and outside
SampleOffsets == {0, 45, 63, 64, 100}
SamplePoints == {[x |-> c + d, y |-> c] : c \in {100, 10}, d \in SampleOffsets}

RevealedTwice(m, n) ==
    LET c == m.content IN
    /\ revealAnimations = << >>
    /\ n > 0
    /\ Len(c) = 1 + 2 * n
    /\ c[1].op # "destination-out"
    /\ \A j \in 2..Len(c) : c[j].op = "destination-out"
    /\ SubSeq(c, 2, n + 1) = SubSeq(c, n + 2, 2 * n + 1)
    /\ \E data \in RevealInputs :
          c[n + 1].radius = EasedRadius(data.range, revealDuration, revealDuration)

RECURSIVE AllLoaded(_, _)
AllLoaded(fog, images) ==
    IF images = {} THEN fog
    ELSE LET p == CHOOSE q \in images : TRUE
             next == ImageOnload(fog, p)
         IN IF DOMAIN next = {} THEN next ELSE AllLoaded(next, images \ {p})

SavedFog == {emitted[i].fogOfWarData :
                i \in {j \in 1..Len(emitted) : emitted[j].event = "save_fog_of_war"}}

\* C14: restoring the payload saveFogOfWarToServer has just sent, into a
\* client that holds no mask and no chunk or into the client that sent it,
\* gives masks under the same keys as the masks serialised, each as opaque at
\* every pixel as the mask it was serialised from.
C14_FogRoundTrip ==
    \A payload \in SavedFog :
        \A before \in {EmptyMap, fogOfWar} :
            LET restored == AllLoaded(before, RestoreFogOfWarFromServer(payload)) IN
            /\ DOMAIN restored = DOMAIN fogOfWar
            /\ \A k \in DOMAIN fogOfWar :
                  \A p \in SamplePoints :
                      Opacity(restored[k], p) = Opacity(fogOfWar[k], p)

\* a payload was sent that holds a mask a reveal has erased in part, next to
\* masks that are still filled
C14_Witness ==
    /\ SavedFog # {}
    /\ \E k \in DOMAIN fogOfWar :
          \E p \in SamplePoints :
              /\ Opacity(fogOfWar[k], p) > 0
              /\ Opacity(fogOfWar[k], p) < AlphaOf(9)
    /\ \E k \in DOMAIN fogOfWar : fogOfWar[k].content = FilledContent

-----------------------------------------------------------------------------
(* Scenario: camera at the origin *)

ScenarioPass ==
    \/ \E save \in BOOLEAN : Tick(save)
    \/ \E data \in ScenarioWorldInputs : OnWorldJoined(data)

RequestedCoords(events) ==
    LET reqs == Requests(events) IN
    IF Len(reqs) = 1
    THEN {reqs[1].chunkCoords[i] : i \in 1..Len(reqs[1].chunkCoords)}
    ELSE {}

\* the centre of the view, camera + canvas / (2 scale), lies in chunk C
ViewCentreIn(cam, C) ==
    LET cx == 2 * cam.scalePct * cam.x + 100 * canvasWidth
        cy == 2 * cam.scalePct * cam.y + 100 * canvasHeight
        side == 2 * cam.scalePct * chunkSize
    IN /\ side * C.x <= cx /\ cx < side * (C.x + 1)
       /\ side * C.y <= cy /\ cy < side * (C.y + 1)

Origin == [x |-> 0, y |-> 0]

\* C15 as stated: with an empty cache and a connected client, a recompute pass
\* run with the camera at (0, 0) requests exactly the 49 coordinates
\* {-3..3} x {-3..3}, whatever the zoom scale.
C15_OriginSquareAtAnyZoom ==
    [][(ScenarioPass /\ isConnected /\ loadedChunks = EmptyMap
            /\ camera'.x = 0 /\ camera'.y = 0) =>
          /\ Len(Requests(emitted')) = 1
          /\ Len(Requests(emitted')[1].chunkCoords) = 49
          /\ RequestedCoords(emitted') = Square(Origin)]_vars

\* C15 amended: with an empty cache and a connected client, a recompute pass
\* requests exactly the 49 coordinates of the square of radius 3 around the
\* chunk that holds the centre of the view, camera + canvas / (2 scale); with
\* the camera at (0, 0) this is {-3..3} x {-3..3} when that centre lies in
\* chunk (0, 0).
C15_SquareAroundViewCentre ==
    [][(ScenarioPass /\ isConnected /\ loadedChunks = EmptyMap) =>
          /\ Len(Requests(emitted')) = 1
          /\ Len(Requests(emitted')[1].chunkCoords) = 49
          /\ \A C \in Square(Origin) :
                ViewCentreIn(camera', C) => RequestedCoords(emitted') = Square(C)
          /\ \E C \in Square(Origin) : ViewCentreIn(camera', C)]_vars

\* a pass has run on an empty cache with the camera at (0, 0) and the zoom at
\* one half: the centre of the view is in chunk (1, 1)
C15_Witness ==
    /\ lastEvent \in {"tick", "world_joined"}
    /\ isConnected
    /\ loadedChunks = EmptyMap
    /\ camera = Camera(0, 0, 50)
    /\ RequestedCoords(emitted) = Square([x |-> 1, y |-> 1])

-----------------------------------------------------------------------------
(* Handshake *)

\* C16: every connect event, of this.socket or of an earlier socket, whatever
\* the reconnect counter was, leaves isConnected true and the counter at 0 and
\* emits one join_world event and nothing else.
C16_ConnectJoins ==
    [][Connects =>
          /\ isConnected'
          /\ reconnectAttempts' = 0
          /\ Len(emitted') = 1
          /\ emitted'[1].event = "join_world"]_vars

\* a connect event handled while timers of the 4th or 5th consecutive
\* reconnect attempt are still pending
C16_Witness ==
    /\ lastEvent = "connect"
    /\ BagIn(10000, timers)
    /\ reconnectAttempts = 0
    /\ isConnected

\* C17: after a transport loss or a failed handshake the client comes to be
\* connected, or reports that reconnecting failed.
C17_FaultsResolved ==
    (lastEvent \in {"disconnect", "connect_error"} /\ ~isConnected)
        ~> (isConnected \/ Shown(ReconnectFailedNotice))

-----------------------------------------------------------------------------
(* Reveal requests *)

\* the world point (x, y) lies in chunk (cx, cy)
PointInChunk(x, y, cx, cy) ==
    /\ chunkSize * cx <= x /\ x < chunkSize * (cx + 1)
    /\ chunkSize * cy <= y /\ y < chunkSize * (cy + 1)

\* C18: an area_explored event whose point lies in a chunk without a mask
\* registers no reveal operation and leaves the masks as they are; one whose
\* chunk has a mask appends exactly one operation, owned by the chunk that
\* contains the point, with radius 0 and the range asked for as its target
\* radius, and leaves the masks as they are too.
C18_RevealNeedsMask ==
    [][\A data \in RevealInputs :
          OnAreaExplored(data) =>
              /\ fogOfWar' = fogOfWar
              /\ IF \E k \in DOMAIN fogOfWar :
                       PointInChunk(data.x, data.y, ParseChunkKey(k).x, ParseChunkKey(k).y)
                 THEN /\ Len(revealAnimations') = Len(revealAnimations) + 1
                      /\ SubSeq(revealAnimations', 1, Len(revealAnimations)) = revealAnimations
                      /\ LET op == revealAnimations'[Len(revealAnimations')] IN
                            /\ PointInChunk(data.x, data.y, op.chunkX, op.chunkY)
                            /\ op.x = data.x /\ op.y = data.y
                            /\ op.radius.num = 0
                            /\ op.targetRadius = data.range
                 ELSE revealAnimations' = revealAnimations]_vars

\* a reveal was dropped while other chunks had their masks
C18_Witness ==
    /\ lastEvent = "area_explored"
    /\ revealAnimations = << >>
    /\ getChunkKey(0, 0) \in DOMAIN fogOfWar

-----------------------------------------------------------------------------
(* Fog and terrain arrival order *)

DeliveredKeys(coords) == {getChunkKey(coords[i].x, coords[i].y) : i \in 1..Len(coords)}

-----------------------------------------------------------------------------
(* Late deliveries and eviction *)

\* the chunks of lc farther than chunkLoadRadius + 1 from C
FarIn(lc, C) ==
    {k \in DOMAIN lc :
        \/ Abs(lc[k].x - C.x) > chunkLoadRadius + 1
        \/ Abs(lc[k].y - C.y) > chunkLoadRadius + 1}

-----------------------------------------------------------------------------
(* Life of a reveal operation *)

\* an operation without the radius the last tick gave it
WithoutRadius(anim) == [anim EXCEPT !.radius = Fraction(0, 1)]
Young(anim) == anim.elapsed < anim.duration
AtTarget(op, anim) == op.radius.num = anim.targetRadius * op.radius.den

-----------------------------------------------------------------------------
(* Progress of chunk streaming *)

AllResident ==
    \A c \in Square(CameraChunk(camera)) : getChunkKey(c.x, c.y) \in DOMAIN loadedChunks

-----------------------------------------------------------------------------
(* Reveal operations that cannot erase *)

\* the operation has finite coordinates and a finite, positive radius now
Drawable(anim) ==
    /\ IsFinite(anim.x) /\ IsFinite(anim.y)
    /\ IsFinite(anim.targetRadius) /\ anim.targetRadius > 0
    /\ anim.elapsed > 0

\* C23: a tick raises no error and appends to every mask exactly one erasure
\* for each operation of a resident chunk that has finite coordinates and a
\* finite positive radius, in the order of the operations, each with finite
\* coordinates and a finite positive radius; an operation whose radius or
\* coordinates are not finite, or whose radius is not positive, adds nothing.
C23_NonFiniteSkipped ==
    [][lastEvent' = "tick" =>
          /\ ~threw'
          /\ \A k \in DOMAIN fogOfWar' :
                LET old == fogOfWar[k].content
                    new == fogOfWar'[k].content
                    Draws(anim) == /\ Drawable(anim)
                                   /\ getChunkKey(anim.chunkX, anim.chunkY) = k
                                   /\ k \in DOMAIN loadedChunks'
                    drawn == SelectSeq(revealAnimations, Draws)
                IN /\ Len(new) = Len(old) + Len(drawn)
                   /\ SubSeq(new, 1, Len(old)) = old
                   /\ \A j \in 1..Len(drawn) :
                         LET op == new[Len(old) + j] IN
                         /\ op.op = "destination-out"
                         /\ IsFinite(op.x) /\ IsFinite(op.y)
                         /\ IsFinite(op.radius.num) /\ op.radius.num > 0
                         /\ op.x = drawn[j].x - loadedChunks'[k].worldX
                         /\ op.y = drawn[j].y - loadedChunks'[k].worldY]_vars

\* a tick has run over an operation of infinite radius and a sound one, and
\* the mask holds the erasure of the sound one as its last drawing
C23_Witness ==
    /\ lastEvent = "tick"
    /\ Len(revealAnimations) = 2
    /\ \E i, j \in 1..2 :
          /\ revealAnimations[i].targetRadius = Infinity
          /\ revealAnimations[i].radius.num = Infinity
          /\ Drawable(revealAnimations[j])
          /\ LET c == fogOfWar[getChunkKey(0, 0)].content IN
                /\ Len(c) > 1
                /\ c[Len(c)].radius = revealAnimations[j].radius

\* C24: the tick that removes a reveal operation has erased the operation's
\* mask at the operation's target radius, whether the chunk of the mask is
\* resident or not.
C24_RegisteredRevealErases ==
    [][lastEvent' = "tick" =>
          \A i \in 1..Len(revealAnimations) :
              LET anim == revealAnimations[i]
                  k == getChunkKey(anim.chunkX, anim.chunkY)
              IN (~Young(anim) /\ k \in DOMAIN fogOfWar) =>
                    /\ k \in DOMAIN fogOfWar'
                    /\ \E j \in (Len(fogOfWar[k].content) + 1)..Len(fogOfWar'[k].content) :
                          AtTarget(fogOfWar'[k].content[j], anim)]_vars

-----------------------------------------------------------------------------
(* Sockets of earlier connectToServer calls *)

\* C25: isConnected is true only if the socket this.socket refers to, the one
\* every emit goes to, is connected.
C25_FlagAgreesWithSocket == isConnected => socket = "connected"

\* C26: at most one socket has live handlers, and connectToServer is never
\* called (by a timer) while an earlier socket is alive or another timer is
\* pending.
C26_OneSocketOneTimer ==
    /\ [](AliveSockets <= 1)
    /\ [][lastEvent' = "timer" =>
             /\ AliveSockets = 0
             /\ BagCardinality(timers) = 1]_vars

-----------------------------------------------------------------------------
(* Joining another world *)

-----------------------------------------------------------------------------
(* The player's own confirmed building *)

\* C28: a building_placed event whose acting id equals the local connection
\* id leaves the buildings list unchanged: the confirmed building is not
\* appended.
C28_OwnBuildingNotAppended ==
    [][\A data \in BuildingPlacedInputs :
          (/\ lastEvent' = "building_placed"
           /\ OnBuildingPlaced(data)
           /\ data.playerId = SocketId)
          => buildings' = buildings]_vars

\* the player's own building was confirmed (the resources of the event were
\* taken and cancelPlacement was called) while the list held one building of
\* a peer and nothing else
C28_Witness ==
    /\ lastEvent = "building_placed"
    /\ SocketId = LocalId
    /\ threw
    /\ resources # InitialResources
    /\ Len(buildings) = 1
    /\ buildings[1].playerId # LocalId

-----------------------------------------------------------------------------
(* Fog masks outside the streaming window *)

\* the keys of the masks in fog that lie farther than chunkLoadRadius + 1
\* from the chunk C
FarMasks(fog, C) ==
    {k \in DOMAIN fog :
        LET c == ParseChunkKey(k) IN
        \/ Abs(c.x - C.x) > chunkLoadRadius + 1
        \/ Abs(c.y - C.y) > chunkLoadRadius + 1}

\* C29: immediately after a recompute pass no fog mask exists for a chunk
\* coordinate farther than chunkLoadRadius + 1 from the camera chunk, masks
\* made by a fog restore for chunks that never became resident included.
C29_NoMaskOutsideWindow ==
    [][(lastEvent' \in {"tick", "world_joined"} /\ RecomputePass)
          => FarMasks(fogOfWar', CameraChunk(camera')) = {}]_vars

=============================================================================
